---- MODULE Spec2Model ----
(***************************************************************************)
(* Device-shadow synchronisation task of shadow_device_task.c:             *)
(* the reconcile loop of vShadowDeviceTask and the three incoming-publish  *)
(* callbacks (delta, accepted, rejected) that run on the MQTT agent task   *)
(* and share one ShadowDeviceCtx_t with it.                                *)
(***************************************************************************)
EXTENDS Integers, Sequences, FiniteSets, TLC

\* ---------------------------------------------------------------- bounds
MaxVersion == 2        \* delta documents carry versions 0..MaxVersion
MaxTickOffset == 1     \* tick counts read are k*1000000 + 0..MaxTickOffset
MaxNotify == 2         \* cap on the task-notification count
MaxDeltas == 4         \* length of the delta history kept in SpecDelta
MaxElapsed == 2        \* start-up waits are followed for 0..MaxElapsed periods
MaxWideState == 10     \* SpecCodec: delta documents carry powerOn 0..MaxWideState

\* ------------------------------------------------------ program constants
shadowexampleINVALID_POWERON_STATE == 2
TokenModulus == 1000000
TokenWidth == 6

\* ------------------------------------------------------------ text codec
DigitChars == <<"0", "1", "2", "3", "4", "5", "6", "7", "8", "9">>

IsDigit(c) == \E i \in 1..10 : DigitChars[i] = c

DigitVal(c) == (CHOOSE i \in 1..10 : DigitChars[i] = c) - 1

\* printf("%u"): the decimal digits of n, no padding.
RECURSIVE FormatU(_)
FormatU(n) == IF n < 10 THEN <<DigitChars[n + 1]>>
              ELSE Append(FormatU(n \div 10), DigitChars[(n % 10) + 1])

\* printf("%0<w>lu"): zero padded to at least w characters.
RECURSIVE ZeroPad(_, _)
ZeroPad(s, w) == IF Len(s) >= w THEN s ELSE ZeroPad(<<"0">> \o s, w)

FormatToken(t) == ZeroPad(FormatU(t), TokenWidth)

\* strtoul(text, NULL, 10): the value of the longest prefix of digits,
\* 0 when the text does not start with a digit.
RECURSIVE StrToULAcc(_, _)
StrToULAcc(s, acc) ==
    IF s = <<>> \/ ~IsDigit(Head(s)) THEN acc
    ELSE StrToULAcc(Tail(s), acc * 10 + DigitVal(Head(s)))

StrToUL(s) == StrToULAcc(s, 0)

\* ------------------------------------------------------ report document
\* shadowexampleSHADOW_REPORTED_JSON, lines 96-104, character by character:
\* the literal text around the two conversion specifications.
ReportHead ==
    <<"{", "\"", "s", "t", "a", "t", "e", "\"", ":", "{", "\"", "r",
      "e", "p", "o", "r", "t", "e", "d", "\"", ":", "{", "\"", "p",
      "o", "w", "e", "r", "O", "n", "\"", ":">>

StateDirective == <<"%", "1", "u">>

ReportMiddle ==
    <<"}", "}", ",", "\"", "c", "l", "i", "e", "n", "t", "T", "o", "k",
      "e", "n", "\"", ":", "\"">>

TokenDirective == <<"%", "0", "6", "l", "u">>

ReportTail == <<"\"", "}">>

shadowexampleSHADOW_REPORTED_JSON ==
    ReportHead \o StateDirective \o ReportMiddle \o TokenDirective
    \o ReportTail

\* sizeof of a string literal counts its terminating character.
SizeOf(literal) == Len(literal) + 1

\* Line 121.
shadowexampleSHADOW_REPORTED_JSON_LENGTH ==
    SizeOf(shadowexampleSHADOW_REPORTED_JSON) - 2

\* What the format of lines 96-104 produces with room for all of it: "%1u"
\* prints at least one digit, "%06lu" at least six.
FormattedReport(state, token) ==
    ReportHead \o FormatU(state) \o ReportMiddle \o FormatToken(token)
    \o ReportTail

\* snprintf( buffer, size, ... ) stores at most size - 1 characters.
StoredLength(size, text) == IF Len(text) < size THEN Len(text) ELSE size - 1

\* The text a report buffer holds: pcUpdateDocument is kept as the two
\* arguments of snprintf and the number of characters snprintf stored.
BufferText(buffer) ==
    SubSeq(FormattedReport(buffer.state, buffer.token), 1, buffer.stored)

\* ------------------------------------------------------------- documents
NoField == <<"absent">>           \* JSON_Search did not find the key
NonNumeric == <<"x">>             \* a value that is not a number

\* ------------------------------------------------------- JSON documents
\* JSON_Validate and JSON_Search as the callbacks use them, for documents
\* made of objects, strings without escapes and unsigned numbers, with no
\* white space.
Quote == "\""

CharAt(text, i) == IF i \in 1..Len(text) THEN text[i] ELSE ""

\* Index of the quote closing a string whose characters start at i; 0 when
\* the string is not closed.
RECURSIVE StringClose(_, _)
StringClose(text, i) ==
    IF i > Len(text) THEN 0
    ELSE IF text[i] = Quote THEN i
    ELSE StringClose(text, i + 1)

\* Index after the run of digits starting at i.
RECURSIVE DigitsEnd(_, _)
DigitsEnd(text, i) ==
    IF IsDigit(CharAt(text, i)) THEN DigitsEnd(text, i + 1) ELSE i

\* Index after the value starting at i, and index after the brace closing
\* the object whose next member starts at i; 0 when the text is malformed.
RECURSIVE ValueEnd(_, _)
RECURSIVE MembersEnd(_, _)
ValueEnd(text, i) ==
    LET c == CharAt(text, i)
        e == StringClose(text, i + 1)
    IN  IF c = "{"
        THEN IF CharAt(text, i + 1) = "}" THEN i + 2
             ELSE MembersEnd(text, i + 1)
        ELSE IF c = Quote THEN (IF e = 0 THEN 0 ELSE e + 1)
        ELSE IF IsDigit(c) THEN DigitsEnd(text, i)
        ELSE 0

MembersEnd(text, i) ==
    LET k == IF CharAt(text, i) = Quote THEN StringClose(text, i + 1) ELSE 0
        v == IF k = 0 \/ CharAt(text, k + 1) # ":" THEN 0
             ELSE ValueEnd(text, k + 2)
    IN  IF v = 0 THEN 0
        ELSE IF CharAt(text, v) = "," THEN MembersEnd(text, v + 1)
        ELSE IF CharAt(text, v) = "}" THEN v + 1
        ELSE 0

\* JSON_Validate: the whole text is one value.
JSON_Validate(text) == ValueEnd(text, 1) = Len(text) + 1

\* Index of the value of the member named key among the members starting
\* at i; 0 when there is none.
RECURSIVE MemberValue(_, _, _)
MemberValue(text, i, key) ==
    LET k == IF CharAt(text, i) = Quote THEN StringClose(text, i + 1) ELSE 0
        v == IF k = 0 \/ CharAt(text, k + 1) # ":" THEN 0
             ELSE ValueEnd(text, k + 2)
    IN  IF v = 0 THEN 0
        ELSE IF SubSeq(text, i + 1, k - 1) = key THEN k + 2
        ELSE IF CharAt(text, v) = "," THEN MemberValue(text, v + 1, key)
        ELSE 0

\* Index of the value reached from the value at i through the keys of path.
RECURSIVE PathValue(_, _, _)
PathValue(text, i, path) ==
    IF path = <<>> THEN i
    ELSE IF CharAt(text, i) # "{" THEN 0
    ELSE LET m == MemberValue(text, i + 1, Head(path))
         IN  IF m = 0 THEN 0 ELSE PathValue(text, m, Tail(path))

\* JSON_Search: the text of the value at the path, a string without its
\* quotes; NoField when the key is not found.
JSON_Search(text, path) ==
    LET i == PathValue(text, 1, path)
    IN  IF i = 0 THEN NoField
        ELSE IF text[i] = Quote
             THEN SubSeq(text, i + 1, StringClose(text, i + 1) - 1)
             ELSE SubSeq(text, i, ValueEnd(text, i) - 1)

\* "clientToken", lines 639-643.
ClientTokenPath == <<<<"c", "l", "i", "e", "n", "t", "T", "o", "k", "e", "n">>>>

\* "state.reported.powerOn", lines 670-674.
ReportedPowerOnPath ==
    <<<<"s", "t", "a", "t", "e">>,
      <<"r", "e", "p", "o", "r", "t", "e", "d">>,
      <<"p", "o", "w", "e", "r", "O", "n">>>>

\* Lines 629-686: what the accepted callback reads in a payload.
ParseAccepted(text) ==
    LET ok == JSON_Validate(text)
    IN  [topic |-> "accepted", valid |-> ok, version |-> NoField,
         clientToken |-> IF ok THEN JSON_Search(text, ClientTokenPath)
                         ELSE NoField,
         powerOn |-> IF ok THEN JSON_Search(text, ReportedPowerOnPath)
                     ELSE NoField,
         code |-> NoField]

Ticks == {k * TokenModulus + r : k \in 1..2, r \in 0..MaxTickOffset}

TokenTexts == {FormatToken(t % TokenModulus) : t \in Ticks} \cup {NonNumeric}
ValueTexts == {FormatU(v) : v \in 0..shadowexampleINVALID_POWERON_STATE}
VersionTexts == {FormatU(v) : v \in 0..MaxVersion}
CodeTexts == {FormatU(4)}

\* The payload of an incoming publish, by the topic it arrived on, whether
\* JSON_Validate accepts it, and the fields the callbacks search for.  A
\* payload that is not valid JSON can still hold the text of every field,
\* as a document cut short does.
NullDoc == [topic |-> "none", valid |-> FALSE, version |-> NoField,
            clientToken |-> NoField, powerOn |-> NoField, code |-> NoField]

DeltaDocs ==
    [topic : {"delta"}, valid : {FALSE}, version : {NoField},
     clientToken : {NoField}, powerOn : {NoField}, code : {NoField}]
    \cup
    [topic : {"delta"}, valid : {FALSE}, version : {FormatU(MaxVersion)},
     clientToken : {NoField}, powerOn : {FormatU(1)}, code : {NoField}]
    \cup
    [topic : {"delta"}, valid : {TRUE}, version : VersionTexts \cup {NoField},
     clientToken : {NoField}, powerOn : ValueTexts \cup {NoField},
     code : {NoField}]

AcceptedDocs ==
    [topic : {"accepted"}, valid : {FALSE}, version : {NoField},
     clientToken : {NoField}, powerOn : {NoField}, code : {NoField}]
    \cup
    [topic : {"accepted"}, valid : {FALSE}, version : {NoField},
     clientToken : TokenTexts, powerOn : {FormatU(1)}, code : {NoField}]
    \cup
    [topic : {"accepted"}, valid : {TRUE}, version : {NoField},
     clientToken : TokenTexts \cup {NoField},
     powerOn : ValueTexts \cup {NoField}, code : {NoField}]

\* Delta documents whose powerOn value is any number the service can send.
WideDeltaDocs ==
    [topic : {"delta"}, valid : {TRUE}, version : VersionTexts,
     clientToken : {NoField},
     powerOn : {FormatU(v) : v \in 0..MaxWideState}, code : {NoField}]

RejectedDocs ==
    [topic : {"rejected"}, valid : {FALSE}, version : {NoField},
     clientToken : {NoField}, powerOn : {NoField}, code : {NoField}]
    \cup
    [topic : {"rejected"}, valid : {FALSE}, version : {NoField},
     clientToken : TokenTexts, powerOn : {NoField}, code : CodeTexts]
    \cup
    [topic : {"rejected"}, valid : {TRUE}, version : {NoField},
     clientToken : TokenTexts \cup {NoField},
     powerOn : {NoField}, code : CodeTexts \cup {NoField}]

\* ----------------------------------------------------------------- state
VARIABLES
    pc,                      \* position of vShadowDeviceTask
    ulCurrentPowerOnState,   \* xShadowCtx.ulCurrentPowerOnState
    ulReportedPowerOnState,  \* xShadowCtx.ulReportedPowerOnState
    ulClientToken,           \* xShadowCtx.ulClientToken
    ulCurrentVersion,        \* static of the delta callback
    ulNotifiedValue,         \* task-notification value of the shadow task
    pcUpdateDocument,        \* the report buffer handed to MQTTAgent_Publish
    xCommandAdded,           \* result of the last MQTTAgent_Publish
    xStatus,                 \* vShadowDeviceTask's xStatus after prvInitializeCtx
    registered,              \* topics whose callback submgr_addSubscription took
    subAck,                  \* progress of the subscribe command's completion
    hpc,                     \* position of the callback running on the agent task
    hdoc,                    \* payload of the publish handled last
    firstCycle,              \* history: no state comparison has been made yet
    timedOut,                \* history: the last wait ended by timeout
    hLate,                   \* history: a non-zero token matched after its wait timed out
    lateUnits,               \* history: pending notifications given by such responses
    answered,                \* history: a response matched during the current wait
    deltaLog,                \* history: delta documents handled
    appliedLog,              \* history: versions written to ulCurrentPowerOnState
    mqttConnected,           \* EVT_MASK_MQTT_CONNECTED of xSystemEvents is set
    elapsed,                 \* time spent in the current start-up wait
    owed,                    \* history: a state set by a delta awaits its report
    retryDue,                \* history: the report in flight was rejected
    fromShadow               \* history: ulReportedPowerOnState was stored from a response

ctx == <<ulCurrentPowerOnState, ulReportedPowerOnState, ulClientToken,
         ulCurrentVersion>>

sub == <<xStatus, registered, subAck>>

hist == <<firstCycle, timedOut, hLate, lateUnits, answered, deltaLog,
          appliedLog>>

conn == <<mqttConnected, elapsed>>

track == <<owed, retryDue, fromShadow>>

vars == <<pc, ulCurrentPowerOnState, ulReportedPowerOnState, ulClientToken,
          ulCurrentVersion, ulNotifiedValue, pcUpdateDocument, xCommandAdded,
          xStatus, registered, subAck, hpc, hdoc, firstCycle, timedOut, hLate,
          lateUnits, answered, deltaLog, appliedLog, mqttConnected, elapsed,
          owed, retryDue, fromShadow>>

\* ShadowDeviceCtx_t xShadowCtx = { 0 }; static ulCurrentVersion = 0.
Init ==
    /\ pc = "start"
    /\ ulCurrentPowerOnState = 0
    /\ ulReportedPowerOnState = 0
    /\ ulClientToken = 0
    /\ ulCurrentVersion = 0
    /\ ulNotifiedValue = 0
    /\ pcUpdateDocument = [state |-> 0, token |-> 0, stored |-> 0]
    /\ xCommandAdded = "MQTTSuccess"
    /\ xStatus = TRUE
    /\ registered = {}
    /\ subAck = "idle"
    /\ hpc = "idle"
    /\ hdoc = NullDoc
    /\ firstCycle = TRUE
    /\ timedOut = FALSE
    /\ hLate = FALSE
    /\ lateUnits = 0
    /\ answered = FALSE
    /\ deltaLog = <<>>
    /\ mqttConnected = FALSE
    /\ elapsed = 0
    /\ owed = FALSE
    /\ retryDue = FALSE
    /\ fromShadow = FALSE
    /\ appliedLog = <<>>

\* ------------------------------------------------------ the shadow task
ReportDueAlways(current, reported) == TRUE

\* Line 841: a report is due when the two states differ.
ReportDue(current, reported) == current # reported

\* Line 850: the client token is derived from the tick count.
NewClientToken(tick) == tick % TokenModulus

\* Lines 853-861: the buffer is zeroed, then snprintf formats the report
\* into its shadowexampleSHADOW_REPORTED_JSON_LENGTH + 1 characters.
EncodeReport(state, token) ==
    [state |-> state, token |-> token,
     stored |-> StoredLength(shadowexampleSHADOW_REPORTED_JSON_LENGTH + 1,
                             FormattedReport(state, token))]

TokenKept(token) == token

\* Line 893: the token is cleared whatever the outcome of the report.
TokenAfterReport(token) == 0

\* Line 888: the reported state after a timed-out wait.
ReportedAfterTimeout(reported) == shadowexampleINVALID_POWERON_STATE

\* Topics of the three incoming-publish callbacks.
Topics == {"delta", "accepted", "rejected"}

\* Return codes the subscribe command can complete with: 0 is MQTTSuccess,
\* the other a failure code.
SubscribeReturnCodes == 0..1

\* Lines 806-822: prvInitializeCtx fails when an allocation or a topic
\* string fails; its result is kept in xStatus.
InitializeCtx ==
    /\ pc = "start"
    /\ \E ok \in BOOLEAN : xStatus' = ok
    /\ pc' = "waitconn"
    /\ UNCHANGED <<ctx, ulNotifiedValue, pcUpdateDocument, xCommandAdded,
                   registered, subAck, hpc, hdoc, hist,
                   conn, track>>

\* Time in a start-up wait is counted in periods of shadow_SIGNAL_TIMEOUT
\* (line 133, 30 s).
SignalTimeoutPeriod == 1

\* A wait for the connected bit that gives up after the signal time-out.
ConnectedWaitTimed(connected, waited) ==
    connected \/ waited >= SignalTimeoutPeriod

\* Lines 825-829: xEventGroupWaitBits is called with portMAX_DELAY, so it
\* returns only when EVT_MASK_MQTT_CONNECTED is set, however long it waited.
ConnectedWaitOver(connected, waited) == connected

\* Lines 401-402: xTaskNotifyWait is called with
\* pdMS_TO_TICKS( shadow_SIGNAL_TIMEOUT ) and returns pdFALSE once that time
\* has passed without a notification.
AckWaitOver(waited) == waited >= SignalTimeoutPeriod

\* The MQTT agent sets EVT_MASK_MQTT_CONNECTED (awaited at lines 825-829) when
\* the first connection is established.
AgentConnected ==
    /\ ~mqttConnected
    /\ mqttConnected' = TRUE
    /\ UNCHANGED <<pc, ctx, ulNotifiedValue, pcUpdateDocument, xCommandAdded,
                   sub, hpc, hdoc, hist, elapsed, track>>

\* A period passes while the task is blocked in a start-up wait that has
\* neither been satisfied nor timed out.
WaitTick ==
    /\ elapsed < MaxElapsed
    /\ \/ pc = "waitconn" /\ ~ConnectedWaitOver(mqttConnected, elapsed)
       \/ pc = "waitack" /\ subAck = "sent" /\ ~AckWaitOver(elapsed)
    /\ elapsed' = elapsed + 1
    /\ UNCHANGED <<pc, ctx, ulNotifiedValue, pcUpdateDocument, xCommandAdded,
                   sub, hpc, hdoc, hist, mqttConnected, track>>

\* Lines 825-835 and 900-904: xEventGroupWaitBits( ..., portMAX_DELAY )
\* returns once the connected bit is set; the task then subscribes, or
\* deletes itself when the context could not be set up.
ConnectionUp ==
    /\ pc = "waitconn"
    /\ ConnectedWaitOver(mqttConnected, elapsed)
    /\ pc' = IF xStatus THEN "subscribe" ELSE "terminated"
    /\ elapsed' = 0
    /\ UNCHANGED <<ctx, ulNotifiedValue, pcUpdateDocument, xCommandAdded, sub,
                   hpc, hdoc, hist, mqttConnected, track>>

\* Lines 382-395: MQTTAgent_Subscribe is retried until the agent's queue
\* takes the command.
SendSubscribe ==
    /\ pc = "subscribe"
    /\ \E queued \in BOOLEAN :
          /\ pc' = IF queued THEN "waitack" ELSE "subscribe"
          /\ subAck' = IF queued THEN "sent" ELSE subAck
    /\ UNCHANGED <<ctx, ulNotifiedValue, pcUpdateDocument, xCommandAdded,
                   xStatus, registered, hpc, hdoc, hist,
                   conn, track>>

\* prvSubscribeCommandCallback, lines 458-472: the return code overwrites
\* the notification value of the shadow task, whatever the task is doing.
SubscribeCommandCallback ==
    /\ subAck = "sent"
    /\ hpc = "idle"
    /\ \E returnCode \in SubscribeReturnCodes : ulNotifiedValue' = returnCode
    /\ subAck' = IF pc = "waitack" THEN "given" ELSE "done"
    /\ hLate' = FALSE
    /\ lateUnits' = 0
    /\ UNCHANGED <<pc, ctx, pcUpdateDocument, xCommandAdded, xStatus,
                   registered, hpc, hdoc, firstCycle, timedOut, answered,
                   deltaLog, appliedLog,
                   conn, track>>

\* Lines 401-418: xTaskNotifyWait returns the notified return code and
\* clears the value; only MQTTSuccess leads to the registration of the delta
\* callback, any other code leaves the local xStatus at MQTTSuccess.
AckNotified ==
    /\ pc = "waitack"
    /\ subAck = "given"
    /\ pc' = IF ulNotifiedValue = 0 THEN "regdelta" ELSE "regaccepted"
    /\ ulNotifiedValue' = 0
    /\ subAck' = "done"
    /\ elapsed' = 0
    /\ UNCHANGED <<ctx, pcUpdateDocument, xCommandAdded, xStatus, registered,
                   hpc, hdoc, hist, mqttConnected, track>>

\* Lines 401-418: xTaskNotifyWait returns pdFALSE after
\* shadow_SIGNAL_TIMEOUT; the local xStatus is still MQTTSuccess.
AckTimeout ==
    /\ pc = "waitack"
    /\ subAck = "sent"
    /\ AckWaitOver(elapsed)
    /\ pc' = "regaccepted"
    /\ elapsed' = 0
    /\ UNCHANGED <<ctx, ulNotifiedValue, pcUpdateDocument, xCommandAdded, sub,
                   hpc, hdoc, hist, mqttConnected, track>>

\* One call of submgr_addSubscription and the test of xStatus after it: a
\* failure skips the remaining registrations, the function returns false
\* and the task deletes itself (lines 900-904).
Register(at, topic, next) ==
    /\ pc = at
    /\ \E ok \in BOOLEAN :
          /\ registered' = IF ok THEN registered \cup {topic} ELSE registered
          /\ pc' = IF ok THEN next ELSE "terminated"
    /\ UNCHANGED <<ctx, ulNotifiedValue, pcUpdateDocument, xCommandAdded,
                   xStatus, subAck, hpc, hdoc, hist,
                   conn, track>>

\* Lines 407-423.
RegisterDelta == Register("regdelta", "delta", "regaccepted")

\* Lines 424-437.
RegisterAccepted == Register("regaccepted", "accepted", "regrejected")

\* Lines 438-453 and 837: with the last callback registered the loop starts.
RegisterRejected == Register("regrejected", "rejected", "check")

\* Values the words of the context can be found to hold once its memory
\* has been released.
ReusedWords == 0..1

\* Lines 796 and 903: xShadowCtx lives on the stack of the task, which
\* vTaskDelete releases, while callbacks registered before the failure keep
\* the pointer to it: what they find there is whatever the memory holds by
\* then.
FreedContextReuse ==
    /\ pc = "terminated"
    /\ registered # {}
    /\ ulCurrentPowerOnState' \in ReusedWords
    /\ ulReportedPowerOnState' \in ReusedWords
    /\ ulClientToken' \in ReusedWords
    /\ UNCHANGED <<pc, ulCurrentVersion, ulNotifiedValue, pcUpdateDocument,
                   xCommandAdded, sub, hpc, hdoc, hist,
                   conn, track>>

Boot ==
    \/ AgentConnected \/ WaitTick
    \/ InitializeCtx \/ ConnectionUp \/ SendSubscribe
    \/ SubscribeCommandCallback \/ AckNotified \/ AckTimeout
    \/ RegisterDelta \/ RegisterAccepted \/ RegisterRejected
    \/ FreedContextReuse

\* Lines 841-847: compare the current state with the last reported one.
CheckState ==
    /\ pc = "check"
    /\ pc' = IF ReportDue(ulCurrentPowerOnState, ulReportedPowerOnState)
             THEN "settoken" ELSE "sleep"
    /\ firstCycle' = FALSE
    /\ timedOut' = FALSE
    /\ UNCHANGED <<ctx, ulNotifiedValue, pcUpdateDocument, xCommandAdded, sub,
                   hpc, hdoc, hLate, lateUnits, answered, deltaLog,
                   appliedLog,
                   conn, track>>

\* Line 850: store a new client token.
SetToken ==
    /\ pc = "settoken"
    /\ \E tick \in Ticks : ulClientToken' = NewClientToken(tick)
    /\ pc' = "publish"
    /\ UNCHANGED <<ulCurrentPowerOnState, ulReportedPowerOnState,
                   ulCurrentVersion, ulNotifiedValue, pcUpdateDocument,
                   xCommandAdded, sub, hpc, hdoc, hist,
                   conn, track>>

WaitsAlways(status) == TRUE

\* Lines 871-879: the task waits for a response only when the publish
\* command was added to the agent's queue.
WaitsForResponse(status) == status = "MQTTSuccess"

\* Lines 853-875: format the report and hand it to MQTTAgent_Publish.
Publish ==
    /\ pc = "publish"
    /\ pcUpdateDocument' = EncodeReport(ulCurrentPowerOnState, ulClientToken)
    /\ xCommandAdded' \in {"MQTTSuccess", "MQTTSendFailed"}
    /\ pc' = IF WaitsForResponse(xCommandAdded') THEN "wait" ELSE "clear"
    /\ answered' = FALSE
    /\ owed' = (owed /\ ~WaitsForResponse(xCommandAdded'))
    /\ UNCHANGED <<ctx, ulNotifiedValue, sub, hpc, hdoc, firstCycle, timedOut,
                   hLate, lateUnits, deltaLog, appliedLog, conn, retryDue,
                   fromShadow>>

\* Line 879, ulTaskNotifyTake( pdFALSE, ... ) returning a non-zero count:
\* the count is decremented and the branch of line 881 is skipped.
TakeNotification ==
    /\ pc = "wait"
    /\ ulNotifiedValue > 0
    /\ ulNotifiedValue' = ulNotifiedValue - 1
    /\ lateUnits' = IF ulNotifiedValue > lateUnits THEN lateUnits
                    ELSE lateUnits - 1
    /\ pc' = "clear"
    /\ answered' = FALSE
    /\ UNCHANGED <<ctx, pcUpdateDocument, xCommandAdded, sub, hpc, hdoc,
                   firstCycle, timedOut, hLate, deltaLog, appliedLog,
                   conn, track>>

\* A take that blocks until a notification is given.
NotifyTakeBlocks(value) == FALSE

\* Line 879: ulTaskNotifyTake is called with
\* pdMS_TO_TICKS( shadow_SIGNAL_TIMEOUT ); with no notification pending it
\* returns 0 once that time has passed.
NotifyTakeTimesOut(value) == value = 0

\* Line 879, ulTaskNotifyTake returning 0 after shadow_SIGNAL_TIMEOUT.
TakeTimeout ==
    /\ pc = "wait"
    /\ NotifyTakeTimesOut(ulNotifiedValue)
    /\ pc' = "timedout"
    /\ timedOut' = TRUE
    /\ answered' = FALSE
    /\ UNCHANGED <<ctx, ulNotifiedValue, pcUpdateDocument, xCommandAdded, sub,
                   hpc, hdoc, firstCycle, hLate, lateUnits, deltaLog,
                   appliedLog,
                   conn, track>>

\* Lines 881-889: a timed-out report is treated as not reported.
SetInvalid ==
    /\ pc = "timedout"
    /\ ulReportedPowerOnState' = ReportedAfterTimeout(ulReportedPowerOnState)
    /\ fromShadow' = FALSE
    /\ pc' = "clear"
    /\ UNCHANGED <<ulCurrentPowerOnState, ulClientToken, ulCurrentVersion,
                   ulNotifiedValue, pcUpdateDocument, xCommandAdded, sub, hpc,
                   hdoc, hist, conn, owed, retryDue>>

\* Line 893.
ClearToken ==
    /\ pc = "clear"
    /\ ulClientToken' = TokenAfterReport(ulClientToken)
    /\ pc' = "sleep"
    /\ UNCHANGED <<ulCurrentPowerOnState, ulReportedPowerOnState,
                   ulCurrentVersion, ulNotifiedValue, pcUpdateDocument,
                   xCommandAdded, sub, hpc, hdoc, hist,
                   conn, track>>

\* Line 897: vTaskDelay, then the next cycle.
Sleep ==
    /\ pc = "sleep"
    /\ pc' = "check"
    /\ UNCHANGED <<ctx, ulNotifiedValue, pcUpdateDocument, xCommandAdded, sub,
                   hpc, hdoc, hist,
                   conn, track>>

Controller ==
    \/ Boot \/ CheckState \/ SetToken \/ Publish \/ TakeNotification
    \/ TakeTimeout \/ SetInvalid \/ ClearToken \/ Sleep

\* ------------------------------------------- callbacks on the agent task
\* The subscription manager runs one callback at a time, and only the
\* callback registered for the topic.
CanDispatch(topic) == topic \in registered /\ hpc = "idle"

DocumentAlwaysValid(doc) == TRUE

\* Lines 512, 629 and 724: JSON_Validate returned JSONSuccess.
DocumentValid(doc) == doc.valid

DeltaIsOlder(ulVersion, current) == ulVersion < current

\* Line 539: the version is not newer than the latest one received.
DeltaIsStale(ulVersion, current) == ulVersion <= current

DeltaResultVersionFirst(doc, current) ==
    LET keep == [version |-> current, apply |-> FALSE, state |-> 0]
        ulVersion == StrToUL(doc.version)
    IN  IF ~doc.valid THEN keep
        ELSE IF doc.version = NoField THEN keep
        ELSE IF ulVersion <= current
             THEN [version |-> ulVersion, apply |-> FALSE, state |-> 0]
        ELSE IF doc.powerOn = NoField
             THEN [version |-> ulVersion, apply |-> FALSE, state |-> 0]
             ELSE [version |-> ulVersion, apply |-> TRUE,
                   state |-> StrToUL(doc.powerOn)]

\* Lines 511-582: what the delta callback does with a document, given the
\* latest version received: the version it leaves, whether it writes the
\* powerOn state, and the value written.
\* The version remembered for a newer delta, set before the document is
\* searched for the powerOn value.
VersionAfterValue(ulVersion, current, found) ==
    IF found THEN ulVersion ELSE current

VersionAfterNewer(ulVersion, current, found) == ulVersion

DeltaResult(doc, current) ==
    LET keep == [version |-> current, apply |-> FALSE, state |-> 0]
        ulVersion == StrToUL(doc.version)
    IN  IF ~DocumentValid(doc) THEN keep
        ELSE IF doc.version = NoField THEN keep
        ELSE IF DeltaIsStale(ulVersion, current) THEN keep
        ELSE IF doc.powerOn = NoField
             THEN [version |-> VersionAfterNewer(ulVersion, current, FALSE),
                   apply |-> FALSE, state |-> 0]
             ELSE [version |-> VersionAfterNewer(ulVersion, current, TRUE),
                   apply |-> TRUE, state |-> StrToUL(doc.powerOn)]

\* A delta callback that also wakes the shadow task.
DeltaBodyWaking(doc) ==
    /\ CanDispatch(doc.topic)
    /\ hdoc' = doc
    /\ LET r == DeltaResult(doc, ulCurrentVersion)
       IN  /\ ulCurrentVersion' = r.version
           /\ ulCurrentPowerOnState' =
                 IF r.apply THEN r.state ELSE ulCurrentPowerOnState
    /\ ulNotifiedValue' = IF ulNotifiedValue < MaxNotify
                          THEN ulNotifiedValue + 1 ELSE ulNotifiedValue
    /\ retryDue' = (retryDue /\ ~DeltaResult(doc, ulCurrentVersion).apply)
    /\ hpc' = "ret"
    /\ UNCHANGED <<pc, ulReportedPowerOnState, ulClientToken,
                   pcUpdateDocument, xCommandAdded, sub, firstCycle, timedOut,
                   hLate, lateUnits, answered, conn>>

DeltaBody(doc) ==
    /\ CanDispatch(doc.topic)
    /\ hdoc' = doc
    /\ LET r == DeltaResult(doc, ulCurrentVersion)
       IN  /\ ulCurrentVersion' = r.version
           /\ ulCurrentPowerOnState' =
                 IF r.apply THEN r.state ELSE ulCurrentPowerOnState
    /\ retryDue' = (retryDue /\ ~DeltaResult(doc, ulCurrentVersion).apply)
    /\ hpc' = "ret"
    /\ UNCHANGED <<pc, ulReportedPowerOnState, ulClientToken, ulNotifiedValue,
                   pcUpdateDocument, xCommandAdded, sub, firstCycle, timedOut,
                   hLate, lateUnits, answered, conn>>

\* prvIncomingPublishUpdateDeltaCallback.
DeltaCallback ==
    \E doc \in DeltaDocs :
       DeltaBody(doc) /\ UNCHANGED <<deltaLog, appliedLog, owed, fromShadow>>

\* The same callback, with the states it sets remembered until they are
\* reported.
DeltaCallbackTracked ==
    \E doc \in DeltaDocs :
       /\ DeltaBody(doc)
       /\ LET r == DeltaResult(doc, ulCurrentVersion)
          IN  owed' = IF r.apply
                      THEN ~(fromShadow
                             /\ r.state = ulReportedPowerOnState)
                      ELSE owed
       /\ UNCHANGED <<deltaLog, appliedLog, fromShadow>>

\* The same callback, with the documents handled and the versions applied
\* recorded.
DeltaCallbackLogged ==
    /\ Len(deltaLog) < MaxDeltas
    /\ \E doc \in DeltaDocs :
          /\ DeltaBody(doc)
          /\ deltaLog' = Append(deltaLog, doc)
          /\ appliedLog' =
                IF DeltaResult(doc, ulCurrentVersion).apply
                THEN Append(appliedLog, StrToUL(doc.version)) ELSE appliedLog
          /\ UNCHANGED <<owed, fromShadow>>

\* prvIncomingPublishUpdateDeltaCallback, for the documents of WideDeltaDocs.
DeltaCallbackWide ==
    \E doc \in WideDeltaDocs :
       DeltaBody(doc) /\ UNCHANGED <<deltaLog, appliedLog, owed, fromShadow>>

TokenAlwaysMatches(ulReceivedToken, token) == TRUE

TokenNeverMatches(ulReceivedToken, token) == FALSE

\* Lines 661 and 756: the received token is the one being waited for.
TokenMatches(ulReceivedToken, token) == ulReceivedToken = token

ResponseMatchesUnchecked(doc, token) ==
    /\ doc.valid
    /\ StrToUL(doc.clientToken) = token

\* Lines 629-667 and 724-760: the document is valid JSON, has a clientToken
\* and the token converted by strtoul matches ulClientToken.
ResponseMatches(doc, token) ==
    /\ DocumentValid(doc)
    /\ doc.clientToken # NoField
    /\ TokenMatches(StrToUL(doc.clientToken), token)

ReportedAfterAcceptedReset(doc, reported) ==
    IF doc.powerOn = NoField THEN 0 ELSE StrToUL(doc.powerOn)

\* Lines 670-686: the reported state left by a matched accepted response.
ReportedAfterAccepted(doc, reported) ==
    IF doc.powerOn = NoField THEN reported ELSE StrToUL(doc.powerOn)

\* A give that leaves the notification value as it was.
NotifyHeld(value) == value

\* Lines 689 and 782: xTaskNotifyGive increments the notification value.
NotifyGive(value) == value + 1

ResponseCompare(doc, matched) ==
    /\ CanDispatch(doc.topic)
    /\ hdoc' = doc
    /\ IF ResponseMatches(doc, ulClientToken)
       THEN /\ hpc' = matched
            /\ hLate' = (timedOut /\ pc \in {"timedout", "clear"}
                          /\ ulClientToken # 0)
            /\ answered' = (answered \/ pc = "wait")
            /\ retryDue' = (retryDue /\ matched # "acc_store")
       ELSE /\ hpc' = "ret"
            /\ hLate' = hLate
            /\ answered' = answered
            /\ retryDue' = retryDue
    /\ UNCHANGED <<pc, ctx, ulNotifiedValue, pcUpdateDocument, xCommandAdded,
                   sub, firstCycle, timedOut, lateUnits, deltaLog,
                   appliedLog, conn, owed, fromShadow>>

ResponseGive ==
    /\ ulNotifiedValue < MaxNotify
    /\ ulNotifiedValue' = NotifyGive(ulNotifiedValue)
    /\ lateUnits' = IF hLate THEN lateUnits + 1 ELSE lateUnits
    /\ hLate' = FALSE
    /\ hpc' = "ret"
    /\ UNCHANGED <<pc, ctx, pcUpdateDocument, xCommandAdded, sub, hdoc,
                   firstCycle, timedOut, answered, deltaLog, appliedLog,
                   conn, owed, fromShadow>>

\* prvIncomingPublishUpdateAcceptedCallback, lines 629-667.
AcceptedCompare == \E doc \in AcceptedDocs : ResponseCompare(doc, "acc_store")

\* prvIncomingPublishUpdateAcceptedCallback, lines 670-686.
AcceptedStoreBody ==
    /\ hpc = "acc_store"
    /\ ulReportedPowerOnState' =
          ReportedAfterAccepted(hdoc, ulReportedPowerOnState)
    /\ hpc' = "acc_give"
    /\ UNCHANGED <<pc, ulCurrentPowerOnState, ulClientToken, ulCurrentVersion,
                   ulNotifiedValue, pcUpdateDocument, xCommandAdded, sub,
                   hdoc, hist, conn, retryDue>>

AcceptedStore == AcceptedStoreBody /\ UNCHANGED <<owed, fromShadow>>

\* The same step, remembering that the reported state now comes from the
\* shadow and that a state the shadow holds needs no further report.
AcceptedStoreTracked ==
    /\ AcceptedStoreBody
    /\ fromShadow' = (fromShadow \/ hdoc.powerOn # NoField)
    /\ owed' = (owed /\ ~(hdoc.powerOn # NoField
                           /\ StrToUL(hdoc.powerOn) = ulCurrentPowerOnState))

\* prvIncomingPublishUpdateAcceptedCallback, line 689.
AcceptedGive == hpc = "acc_give" /\ ResponseGive /\ UNCHANGED retryDue

\* prvIncomingPublishUpdateRejectedCallback, lines 724-779.
RejectedCompare == \E doc \in RejectedDocs : ResponseCompare(doc, "rej_give")

\* prvIncomingPublishUpdateRejectedCallback, line 782.
RejectedGive == hpc = "rej_give" /\ ResponseGive /\ UNCHANGED retryDue

\* The same step, remembering that the report in flight, whose state the
\* shadow does not hold, was rejected.
RejectedGiveTracked ==
    /\ hpc = "rej_give"
    /\ ResponseGive
    /\ retryDue' = (retryDue \/ (pc = "wait" /\ ulCurrentPowerOnState
                                                # ulReportedPowerOnState))

\* The callback returns to the subscription manager.
CallbackReturn ==
    /\ hpc = "ret"
    /\ hpc' = "idle"
    /\ hdoc' = NullDoc
    /\ UNCHANGED <<pc, ctx, ulNotifiedValue, pcUpdateDocument, xCommandAdded,
                   sub, hist,
                   conn, track>>

Callbacks ==
    \/ CallbackReturn
    \/ DeltaCallback
    \/ AcceptedCompare \/ AcceptedStore \/ AcceptedGive
    \/ RejectedCompare \/ RejectedGive

Next == Controller \/ Callbacks

Spec == Init /\ [][Next]_vars

\* The delta callback alone, with its history recorded: the start-up as far
\* as the registration of the delta callback, then deliveries on the delta
\* topic while the task runs.
NextDelta ==
    \/ AgentConnected \/ InitializeCtx \/ ConnectionUp \/ SendSubscribe
    \/ SubscribeCommandCallback \/ AckNotified \/ RegisterDelta
    \/ DeltaCallbackLogged \/ CallbackReturn

SpecDelta == Init /\ [][NextDelta]_vars

\* The report codec: the start-up, deltas carrying any powerOn value, and the
\* reports the loop formats for them, none of which is answered.
NextCodec ==
    \/ AgentConnected \/ InitializeCtx \/ ConnectionUp \/ SendSubscribe
    \/ SubscribeCommandCallback \/ AckNotified
    \/ RegisterDelta \/ RegisterAccepted \/ RegisterRejected
    \/ DeltaCallbackWide \/ CallbackReturn
    \/ CheckState \/ SetToken \/ Publish \/ TakeTimeout \/ SetInvalid
    \/ ClearToken \/ Sleep

SpecCodec == Init /\ [][NextCodec]_vars

\* The start-up in which every step succeeds and the subscribe completion
\* arrives within its wait.
BootClean ==
    \/ AgentConnected \/ InitializeCtx \/ ConnectionUp \/ SendSubscribe
    \/ SubscribeCommandCallback \/ AckNotified
    \/ RegisterDelta \/ RegisterAccepted \/ RegisterRejected

\* The reconcile loop of vShadowDeviceTask.
LoopStep ==
    \/ CheckState \/ SetToken \/ Publish \/ TakeNotification \/ TakeTimeout
    \/ SetInvalid \/ ClearToken \/ Sleep

\* The loop and the three callbacks, with the states set by deltas followed
\* until they are reported or the shadow is known to hold them.
NextLoss ==
    \/ BootClean \/ LoopStep
    \/ DeltaCallbackTracked
    \/ AcceptedCompare \/ AcceptedStoreTracked \/ AcceptedGive
    \/ RejectedCompare \/ RejectedGive
    \/ CallbackReturn

SpecLoss == Init /\ [][NextLoss]_vars

\* The loop and the three callbacks, with a rejection remembered for as long
\* as the state is unchanged and no accepted response matches.
NextRetry ==
    \/ BootClean \/ LoopStep
    \/ DeltaCallback
    \/ AcceptedCompare \/ AcceptedStore \/ AcceptedGive
    \/ RejectedCompare \/ RejectedGiveTracked
    \/ CallbackReturn

SpecRetry == Init /\ [][NextRetry]_vars

\* Lines 853-875 when MQTTAgent_Publish takes the command.
PublishQueued == Publish /\ xCommandAdded' = "MQTTSuccess"

\* The report buffers the loop can hand to the agent, and for each of them
\* what the accepted callback reads in a response that echoes its text.
Reports ==
    {EncodeReport(state, NewClientToken(tick)) :
        state \in 0..shadowexampleINVALID_POWERON_STATE, tick \in Ticks}

AcceptedEcho == [buffer \in Reports |-> ParseAccepted(BufferText(buffer))]

\* The shadow service answers the report in flight, once, with an accepted
\* response that echoes the document it received.
ShadowAccepts ==
    /\ pc = "wait"
    /\ ~answered
    /\ ResponseCompare(AcceptedEcho[pcUpdateDocument], "acc_store")

\* The loop when every publish is queued and answered before the wait of
\* line 879 times out.
LoopStepAnswered ==
    \/ CheckState \/ SetToken \/ PublishQueued \/ TakeNotification
    \/ ClearToken \/ Sleep

AcceptedStep == AcceptedStore \/ AcceptedGive \/ CallbackReturn

\* The loop with deltas, accepted responses to the report in flight and
\* rejected responses of every kind arriving, or not, in any order.
NextLive ==
    \/ BootClean \/ LoopStep
    \/ DeltaCallback
    \/ ShadowAccepts \/ AcceptedStep
    \/ RejectedCompare \/ RejectedGive

\* The shadow task is scheduled whenever it can run; nothing is assumed of
\* the agent task and of the shadow service.
SpecLive == Init /\ [][NextLive]_vars /\ WF_vars(LoopStep)

NextConverge ==
    \/ BootClean \/ LoopStepAnswered
    \/ DeltaCallback
    \/ ShadowAccepts \/ AcceptedStep

\* The shadow task is scheduled whenever it can run (it blocks only in
\* bounded waits), the agent task runs a callback it has entered to its
\* end, and every report is answered.
SpecConverge ==
    /\ Init /\ [][NextConverge]_vars
    /\ WF_vars(LoopStepAnswered)
    /\ WF_vars(AcceptedStep)
    /\ SF_vars(ShadowAccepts)

TypeOK ==
    /\ pc \in {"start", "waitconn", "subscribe", "waitack", "regdelta",
               "regaccepted", "regrejected", "terminated", "check",
               "settoken", "publish", "wait",
               "timedout", "clear", "sleep"}
    /\ registered \subseteq Topics
    /\ subAck \in {"idle", "sent", "given", "done"}
    /\ hpc \in {"idle", "acc_store", "acc_give", "rej_give", "ret"}
    /\ hpc = "idle" <=> hdoc = NullDoc
    /\ hdoc \in {NullDoc} \cup DeltaDocs \cup WideDeltaDocs \cup AcceptedDocs
               \cup RejectedDocs
    /\ ulNotifiedValue \in 0..MaxNotify
    /\ lateUnits \in 0..ulNotifiedValue
    /\ xCommandAdded \in {"MQTTSuccess", "MQTTSendFailed"}
    /\ ulClientToken \in 0..(TokenModulus - 1)
    /\ ulCurrentVersion \in 0..MaxVersion
    /\ mqttConnected \in BOOLEAN
    /\ elapsed \in 0..MaxElapsed
    /\ owed \in BOOLEAN
    /\ retryDue \in BOOLEAN
    /\ fromShadow \in BOOLEAN

\* ------------------------------------------------------------ properties
\* Positions of the shadow task inside its reconcile loop.
LoopPositions == {"check", "settoken", "publish", "wait", "timedout", "clear",
                  "sleep"}

\* A step of the shadow task.
ControllerStep == pc' # pc

\* A step of the callback running on the agent task.
CallbackStep == hpc' # hpc

\* A step in which a callback is entered with a publish on the topic.
Dispatched(topic) ==
    /\ hpc = "idle"
    /\ hpc' # "idle"
    /\ hdoc'.topic = topic

HasToken(doc) == doc.valid /\ doc.clientToken # NoField

\* C1: accepted handler token gate.  For an accepted response carrying a
\* clientToken t and a reported powerOn value v: when t equals ulClientToken
\* the callback goes on to store v in ulReportedPowerOnState and to give
\* exactly one notification; when t differs it returns with the context and
\* the notification value untouched.  The store and the give happen only
\* after a matching comparison.
C1_AcceptedTokenGate ==
    [][ /\ (Dispatched("accepted") /\ HasToken(hdoc')
              /\ hdoc'.powerOn # NoField)
           => /\ UNCHANGED <<ctx, ulNotifiedValue>>
              /\ hpc' = IF StrToUL(hdoc'.clientToken) = ulClientToken
                        THEN "acc_store" ELSE "ret"
        /\ (hpc = "acc_store" /\ CallbackStep /\ hdoc.powerOn # NoField)
           => /\ ulReportedPowerOnState' = StrToUL(hdoc.powerOn)
              /\ UNCHANGED <<ulCurrentPowerOnState, ulClientToken,
                             ulCurrentVersion, ulNotifiedValue>>
              /\ hpc' = "acc_give"
        /\ (hpc = "acc_give" /\ CallbackStep)
           => /\ ulNotifiedValue' = ulNotifiedValue + 1
              /\ UNCHANGED ctx
              /\ hpc' = "ret"
      ]_vars

\* C1 witness: a response carrying the pending non-zero token has been
\* handled while the task waits: its value is stored and the wake is given.
C1_Witness ==
    /\ pc = "wait" /\ hpc = "ret"
    /\ hdoc.topic = "accepted" /\ HasToken(hdoc) /\ hdoc.powerOn # NoField
    /\ ulClientToken # 0
    /\ StrToUL(hdoc.clientToken) = ulClientToken
    /\ ulReportedPowerOnState = StrToUL(hdoc.powerOn)
    /\ ulReportedPowerOnState # ulCurrentPowerOnState
    /\ ulNotifiedValue = 1

\* C2: a response that carries the non-zero token of a report and is matched
\* after the wait for that report has timed out never releases the wait for
\* a later report: whenever a wait returns with a notification, at least
\* one pending notification was not given by such a late response.
C2_NoStrayRelease ==
    [][ (pc = "wait" /\ pc' = "clear") => ulNotifiedValue > lateUnits ]_vars

\* ---- delta history (SpecDelta)
WellFormedDelta(doc) ==
    doc.valid /\ doc.version # NoField /\ doc.powerOn # NoField

LogVersion(i) == StrToUL(deltaLog[i].version)

NewerThanAllBefore(i) == \A j \in 1..(i - 1) : LogVersion(i) > LogVersion(j)

RECURSIVE VersionsWhere(_, _)
VersionsWhere(P(_), n) ==
    IF n = 0 THEN <<>>
    ELSE IF P(n) THEN Append(VersionsWhere(P, n - 1), LogVersion(n))
         ELSE VersionsWhere(P, n - 1)

LastWhere(P(_)) ==
    LET I == {i \in 1..Len(deltaLog) : P(i)}
    IN  IF I = {} THEN 0 ELSE CHOOSE i \in I : \A j \in I : j <= i

GateHolds(P(_)) ==
    (\A i \in 1..Len(deltaLog) : WellFormedDelta(deltaLog[i]))
    => /\ appliedLog = VersionsWhere(P, Len(deltaLog))
       /\ LastWhere(P) # 0
          => ulCurrentPowerOnState = StrToUL(deltaLog[LastWhere(P)].powerOn)

NewerAndPositive(i) == LogVersion(i) > 0 /\ NewerThanAllBefore(i)

\* C3 as stated: of a sequence of well-formed deltas, the applied ones are
\* exactly those whose version exceeds every version delivered before.
C3_GateAsStated == GateHolds(NewerThanAllBefore)

\* C3 amended: the applied deltas are exactly those whose version exceeds 0,
\* the initial latest version, and every version delivered before them, in
\* arrival order; the powerOn state holds the value of the last one applied.
C3_MonotonicGate == GateHolds(NewerAndPositive)

\* C3 witness: four well-formed deltas of versions 1, 2, 1, 2 have been
\* handled; the stale third and the duplicate fourth carried another value
\* and were discarded, so exactly the versions 1 and 2 were applied.
C3_Witness ==
    /\ Len(deltaLog) = 4
    /\ \A i \in 1..4 : WellFormedDelta(deltaLog[i])
    /\ <<LogVersion(1), LogVersion(2), LogVersion(3), LogVersion(4)>>
          = <<1, 2, 1, 2>>
    /\ appliedLog = <<1, 2>>
    /\ hpc = "ret"
    /\ ulCurrentPowerOnState = StrToUL(deltaLog[2].powerOn)
    /\ deltaLog[3].powerOn # deltaLog[2].powerOn
    /\ deltaLog[4].powerOn # deltaLog[2].powerOn

\* C4: the latest applied version never decreases in any step, and a delta
\* whose version is not above it leaves the version and the powerOn state
\* unchanged.
C4_VersionMonotonic ==
    [][ /\ ulCurrentVersion' >= ulCurrentVersion
        /\ (Dispatched("delta") /\ hdoc'.valid
              /\ hdoc'.version # NoField
              /\ StrToUL(hdoc'.version) <= ulCurrentVersion)
           => UNCHANGED <<ulCurrentPowerOnState, ulCurrentVersion>>
      ]_vars

\* C4 witness: a delta of version 1 carrying another value has been handled
\* after version 2 was applied, and was discarded.
C4_Witness ==
    /\ hpc = "ret"
    /\ ulCurrentVersion = 2
    /\ hdoc.topic = "delta"
    /\ WellFormedDelta(hdoc) /\ StrToUL(hdoc.version) = 1
    /\ StrToUL(hdoc.powerOn) # ulCurrentPowerOnState
    /\ pc = "wait"

\* C5: a wait that ends by timeout sets the reported state to the invalid
\* sentinel, and the next cycle publishes again.
C5_TimeoutForcesResend ==
    [][ /\ (pc = "timedout" /\ ControllerStep)
           => ulReportedPowerOnState' = shadowexampleINVALID_POWERON_STATE
        /\ (pc = "check" /\ timedOut /\ ControllerStep) => pc' = "settoken"
      ]_vars

\* C6: a cycle that finds the current state equal to the reported one goes
\* straight to the sleep: no token is stored, no document is formatted or
\* published, no notification is taken.
C6_Idempotence ==
    [][ (pc = "check" /\ ControllerStep
           /\ ulCurrentPowerOnState = ulReportedPowerOnState)
        => /\ pc' = "sleep"
           /\ UNCHANGED <<ctx, ulNotifiedValue, pcUpdateDocument,
                          xCommandAdded>>
      ]_vars

\* C6 witness: a cycle has completed with equal states and nothing was ever
\* formatted for publishing.
C6_Witness ==
    /\ pc = "sleep" /\ ~firstCycle
    /\ ulCurrentPowerOnState = ulReportedPowerOnState
    /\ pcUpdateDocument.stored = 0
    /\ ulClientToken = 0

\* C7: rejected path.  A rejected response whose token matches gives exactly
\* one notification and changes no context field, with or without a code; a
\* response with another token or none gives no notification.
C7_RejectedPath ==
    [][ /\ Dispatched("rejected")
           => /\ UNCHANGED <<ctx, ulNotifiedValue>>
              /\ hpc' = IF HasToken(hdoc')
                           /\ StrToUL(hdoc'.clientToken) = ulClientToken
                        THEN "rej_give" ELSE "ret"
        /\ (hpc = "rej_give" /\ CallbackStep)
           => /\ ulNotifiedValue' = ulNotifiedValue + 1
              /\ UNCHANGED ctx
              /\ hpc' = "ret"
      ]_vars

\* C7 witness: a rejected response without a code, carrying the pending
\* non-zero token, has been handled while the task waits.
C7_Witness ==
    /\ pc = "wait" /\ hpc = "ret"
    /\ hdoc.topic = "rejected" /\ HasToken(hdoc) /\ hdoc.code = NoField
    /\ ulClientToken # 0
    /\ StrToUL(hdoc.clientToken) = ulClientToken
    /\ ulNotifiedValue = 1
    /\ ulReportedPowerOnState # ulCurrentPowerOnState

\* C8: at most one outstanding report: the token is zero at the moment a new
\* one is generated.
C8_OneOutstanding ==
    [][ (pc = "settoken" /\ ControllerStep) => ulClientToken = 0 ]_vars

\* C8 witness: a second report is about to get its token after an earlier
\* report was published with a non-zero token.
C8_Witness ==
    /\ pc = "settoken"
    /\ pcUpdateDocument.stored > 0
    /\ pcUpdateDocument.token # 0

\* C9: invariant I1, read at the points where the task is suspended: the
\* token is non-zero exactly while the task waits for the response to a
\* published report.
C9_TokenIffInFlight ==
    pc \in {"wait", "sleep"} => ((ulClientToken # 0) <=> (pc = "wait"))

\* C10: the first cycle of the loop publishes a report.
C10_FirstCyclePublishes ==
    [][ (pc = "check" /\ firstCycle /\ ControllerStep) => pc' = "settoken"
      ]_vars

\* C11: fatal start-up failure.  The task is inside its reconcile loop only
\* when the subscribe acknowledgement reported success in time, which is the
\* only way the delta callback gets registered, and the accepted and the
\* rejected callbacks were registered as well.
C11_FatalStartupFailure == pc \in LoopPositions => registered = Topics

\* C12: wake implies response.  Whenever the wait of line 879 returns with a
\* notification, a response whose token matched the token of the report in
\* flight was handled after that report was published and before the return.
C12_WakeImpliesResponse ==
    [][ (pc = "wait" /\ pc' = "clear") => answered ]_vars

\* C13 as stated: no step of a callback changes ulReportedPowerOnState or
\* ulClientToken.
C13_SingleWriter ==
    [][ CallbackStep => UNCHANGED <<ulReportedPowerOnState, ulClientToken>>
      ]_vars

\* C13 amended: no step of a callback changes ulClientToken, which the task
\* alone writes, at lines 850 and 893.  ulReportedPowerOnState has two
\* writers: the task, which stores the invalid sentinel after a timeout, and
\* the accepted callback, which stores the reported value of a response
\* whose token matched; the delta and the rejected callback change neither.
C13_Writers ==
    [][ /\ CallbackStep => ulClientToken' = ulClientToken
        /\ (CallbackStep /\ ulReportedPowerOnState' # ulReportedPowerOnState)
           => /\ hpc = "acc_store"
              /\ hdoc.topic = "accepted" /\ HasToken(hdoc)
              /\ hdoc.powerOn # NoField
              /\ ulReportedPowerOnState' = StrToUL(hdoc.powerOn)
        /\ (ControllerStep /\ ulReportedPowerOnState' # ulReportedPowerOnState)
           => /\ pc = "timedout"
              /\ ulReportedPowerOnState' = shadowexampleINVALID_POWERON_STATE
        /\ (ControllerStep /\ ulClientToken' # ulClientToken)
           => pc \in {"settoken", "clear"}
      ]_vars

\* C13 witness: the accepted callback has just stored the value of a
\* response in ulReportedPowerOnState, while the task waits with a non-zero
\* token the callback did not touch.
C13_Witness ==
    /\ hpc = "acc_give" /\ pc = "wait"
    /\ hdoc.topic = "accepted" /\ hdoc.powerOn # NoField
    /\ ulClientToken # 0
    /\ StrToUL(hdoc.clientToken) = ulClientToken
    /\ ulReportedPowerOnState = StrToUL(hdoc.powerOn)
    /\ ulReportedPowerOnState = ulCurrentPowerOnState
    /\ ulReportedPowerOnState # shadowexampleINVALID_POWERON_STATE
    /\ ulCurrentVersion > 0

\* C14: every token generated at line 850 differs from 0, the value that
\* means "not waiting on a response": from the moment the token is stored
\* until line 893 clears it, ulClientToken is not 0.
C14_TokenNeverSentinel ==
    pc \in {"publish", "wait", "timedout", "clear"} => ulClientToken # 0

\* C15: malformed document.  A callback entered with a payload JSON_Validate
\* rejects goes straight to its return: neither the entry nor the return
\* changes ulCurrentPowerOnState, ulReportedPowerOnState, ulClientToken or
\* ulCurrentVersion, and no notification is given.
C15_MalformedIgnored ==
    [][ /\ (hpc = "idle" /\ hpc' # "idle" /\ ~hdoc'.valid)
           => /\ hpc' = "ret"
              /\ UNCHANGED <<ctx, ulNotifiedValue>>
        /\ (hpc = "ret" /\ CallbackStep)
           => /\ hpc' = "idle"
              /\ UNCHANGED <<ctx, ulNotifiedValue>>
      ]_vars

\* C15 witness: while the task waits with a non-zero token and no
\* notification pending, the accepted callback was entered with an invalid
\* payload holding that very token and a value other than the reported
\* state, and is about to return.
C15_Witness ==
    /\ pc = "wait" /\ hpc = "ret"
    /\ hdoc.topic = "accepted" /\ ~hdoc.valid
    /\ hdoc.clientToken # NoField
    /\ ulClientToken # 0
    /\ StrToUL(hdoc.clientToken) = ulClientToken
    /\ hdoc.powerOn # NoField
    /\ StrToUL(hdoc.powerOn) # ulReportedPowerOnState
    /\ ulNotifiedValue = 0

\* ---- report codec (SpecCodec)
\* C16: round trip.  Reading the report the task formatted the way the
\* accepted callback reads a payload (JSON_Validate, JSON_Search of
\* "clientToken" and of "state.reported.powerOn", strtoul) recovers the
\* token and the powerOn value that were formatted.
C16_RoundTrip ==
    pcUpdateDocument.stored > 0
    => LET doc == ParseAccepted(BufferText(pcUpdateDocument))
       IN  /\ doc.valid
           /\ doc.clientToken # NoField
           /\ StrToUL(doc.clientToken) = pcUpdateDocument.token
           /\ doc.powerOn # NoField
           /\ StrToUL(doc.powerOn) = pcUpdateDocument.state

\* C17: no truncation.  The text the format produces for the powerOn state
\* and the token of a report has exactly
\* shadowexampleSHADOW_REPORTED_JSON_LENGTH characters, so the buffer holds
\* all of it.
C17_NoTruncation ==
    pcUpdateDocument.stored > 0
    => /\ Len(FormattedReport(pcUpdateDocument.state, pcUpdateDocument.token))
             = shadowexampleSHADOW_REPORTED_JSON_LENGTH
       /\ pcUpdateDocument.stored = shadowexampleSHADOW_REPORTED_JSON_LENGTH

\* C18: no response is consumed while no report is in flight.  When the
\* task has no token stored (it sleeps, compares the states or is about to
\* generate a token), an accepted or rejected response is dismissed at the
\* token comparison whatever clientToken it carries, so that it neither
\* stores a reported state nor gives a notification.
C18_NoResponseWhileIdle ==
    [][ ( /\ Dispatched("accepted") \/ Dispatched("rejected")
          /\ pc \in {"check", "settoken", "sleep"}
          /\ ulClientToken = 0 )
        => hpc' = "ret"
      ]_vars

\* C19: no notification is left over.  At the moment a report has been
\* handed to the agent and the task begins to wait for its response, the
\* notification value of the task is 0.
C19_NoLeftoverWake ==
    [][ (pc = "publish" /\ pc' = "wait") => ulNotifiedValue = 0 ]_vars

\* C20: publish failure.  When MQTTAgent_Publish does not return
\* MQTTSuccess the task takes no notification and goes straight to the
\* clearing of the token; from there it clears the token and sleeps, and
\* none of these steps changes ulCurrentPowerOnState or
\* ulReportedPowerOnState; the next cycle generates a token for a new
\* report when the two states still differ.
C20_PublishFailure ==
    [][ /\ (pc = "publish" /\ ControllerStep /\ xCommandAdded' # "MQTTSuccess")
           => /\ pc' = "clear"
              /\ UNCHANGED <<ctx, ulNotifiedValue>>
        /\ (pc = "clear" /\ ControllerStep /\ xCommandAdded # "MQTTSuccess")
           => /\ pc' = "sleep"
              /\ ulClientToken' = 0
              /\ UNCHANGED <<ulCurrentPowerOnState, ulReportedPowerOnState,
                             ulNotifiedValue>>
        /\ (pc = "sleep" /\ ControllerStep /\ xCommandAdded # "MQTTSuccess")
           => /\ pc' = "check"
              /\ UNCHANGED <<ctx, ulNotifiedValue>>
        /\ (pc = "check" /\ ControllerStep /\ xCommandAdded # "MQTTSuccess"
              /\ ulCurrentPowerOnState # ulReportedPowerOnState)
           => /\ pc' = "settoken"
              /\ UNCHANGED <<ctx, ulNotifiedValue>>
      ]_vars

\* C20 witness: the publish of a report failed, the token was cleared, and
\* the next cycle is about to publish the same state again, which is still
\* not the reported one; no notification is pending.
C20_Witness ==
    /\ pc = "publish"
    /\ xCommandAdded = "MQTTSendFailed"
    /\ pcUpdateDocument.stored > 0
    /\ pcUpdateDocument.token # 0
    /\ pcUpdateDocument.state = ulCurrentPowerOnState
    /\ ulCurrentPowerOnState # ulReportedPowerOnState
    /\ ulReportedPowerOnState # shadowexampleINVALID_POWERON_STATE
    /\ ulClientToken # 0
    /\ ulNotifiedValue = 0

\* A valid delta document that carries a version and no powerOn value.
ValuelessDelta(doc) ==
    doc.valid /\ doc.version # NoField /\ doc.powerOn = NoField

\* C21: a delta carrying a newer version and no powerOn value advances
\* ulCurrentVersion to that version and leaves ulCurrentPowerOnState
\* unchanged; a later delta carrying the same version and a valid value is
\* then discarded, changing neither the version nor the state.
C21_ValuelessDeltaAdvances ==
    [][ /\ (Dispatched("delta") /\ ValuelessDelta(hdoc')
              /\ StrToUL(hdoc'.version) > ulCurrentVersion)
           => /\ ulCurrentVersion' = StrToUL(hdoc'.version)
              /\ UNCHANGED ulCurrentPowerOnState
        /\ (Dispatched("delta") /\ WellFormedDelta(hdoc')
              /\ \E i \in 1..Len(deltaLog) :
                    /\ ValuelessDelta(deltaLog[i])
                    /\ LogVersion(i) = StrToUL(hdoc'.version))
           => UNCHANGED <<ulCurrentPowerOnState, ulCurrentVersion>>
      ]_vars

\* C21 witness: a valueless delta with a newer version was handled first, and
\* the delta with the same version and a value that followed it was discarded:
\* the version is the one of the valueless delta, nothing was applied.
C21_Witness ==
    /\ Len(deltaLog) = 2 /\ hpc = "ret"
    /\ ValuelessDelta(deltaLog[1]) /\ LogVersion(1) > 0
    /\ WellFormedDelta(deltaLog[2]) /\ LogVersion(2) = LogVersion(1)
    /\ StrToUL(deltaLog[2].powerOn) # ulCurrentPowerOnState
    /\ ulCurrentVersion = LogVersion(1)
    /\ appliedLog = <<>>

\* C22: the delta callback is fire-and-forget.  An execution of it publishes
\* nothing, gives no notification and changes neither
\* ulReportedPowerOnState nor ulClientToken; it is over in the one step in
\* which it may change ulCurrentPowerOnState and ulCurrentVersion.
C22_DeltaFireAndForget ==
    [][ Dispatched("delta")
        => /\ UNCHANGED <<ulReportedPowerOnState, ulClientToken,
                          ulNotifiedValue, pcUpdateDocument, xCommandAdded,
                          pc>>
           /\ hpc' = "ret"
      ]_vars

\* C22 witness: a delta has been applied while a report with a non-zero token
\* is in flight; the state now differs from the one in the report buffer and
\* no notification is pending.
C22_Witness ==
    /\ pc = "wait" /\ hpc = "ret"
    /\ hdoc.topic = "delta" /\ WellFormedDelta(hdoc)
    /\ ulCurrentVersion = StrToUL(hdoc.version)
    /\ ulCurrentPowerOnState = StrToUL(hdoc.powerOn)
    /\ ulCurrentPowerOnState # pcUpdateDocument.state
    /\ ulClientToken # 0
    /\ ulNotifiedValue = 0

\* C27: an accepted response that matches the token and carries no reported
\* powerOn value leaves ulReportedPowerOnState (and the rest of the context)
\* unchanged and still gives the notification; a wait that finds a
\* notification ends without the sentinel being stored, the token is then
\* cleared, and the next comparison, the two states still differing, leads to
\* a new report.
C27_AcceptedWithoutValue ==
    [][ /\ (hpc = "acc_store" /\ CallbackStep /\ hdoc.powerOn = NoField)
           => UNCHANGED <<ctx, ulNotifiedValue>> /\ hpc' = "acc_give"
        /\ (hpc = "acc_give" /\ CallbackStep /\ hdoc.powerOn = NoField)
           => ulNotifiedValue' = ulNotifiedValue + 1 /\ UNCHANGED ctx
        /\ (pc = "wait" /\ ControllerStep /\ ulNotifiedValue > 0)
           => pc' = "clear" /\ UNCHANGED ctx
        /\ (pc = "clear" /\ ControllerStep)
           => /\ ulClientToken' = 0 /\ pc' = "sleep"
              /\ UNCHANGED <<ulCurrentPowerOnState, ulReportedPowerOnState>>
        /\ (pc = "check" /\ ControllerStep
              /\ ulCurrentPowerOnState # ulReportedPowerOnState)
           => pc' = "settoken"
      ]_vars

\* C27 witness: while the task waits, an accepted response with the pending
\* non-zero token and no powerOn value has been handled: the notification is
\* pending and the reported state still differs from the current one.
C27_Witness ==
    /\ pc = "wait" /\ hpc = "ret" /\ answered
    /\ hdoc.topic = "accepted" /\ HasToken(hdoc) /\ hdoc.powerOn = NoField
    /\ ulClientToken # 0
    /\ StrToUL(hdoc.clientToken) = ulClientToken
    /\ ulNotifiedValue = 1
    /\ ulReportedPowerOnState # ulCurrentPowerOnState
    /\ ulReportedPowerOnState # shadowexampleINVALID_POWERON_STATE

\* C28 as stated: every start-up suspension is bounded: neither the wait for
\* the connected bit nor the wait for the subscribe acknowledgement lasts
\* longer than the signal time-out.
C28_StartupWaitsBounded ==
    pc \in {"waitconn", "waitack"} => elapsed <= SignalTimeoutPeriod

\* C28: the wait for the subscribe acknowledgement is bounded: it never
\* lasts longer than the signal time-out, and once the time-out has passed
\* without an acknowledgement the task leaves it and goes on to register the
\* accepted callback.  The wait for the connected bit has no time-out: the
\* task leaves it only when the bit is set.
C28_AckWaitBounded ==
    [][ /\ (pc' = "waitack" => elapsed' <= SignalTimeoutPeriod)
        /\ (pc = "waitack" /\ subAck = "sent" /\ ControllerStep)
           => elapsed = SignalTimeoutPeriod /\ pc' = "regaccepted"
        /\ (pc = "waitconn" /\ ControllerStep) => mqttConnected
      ]_vars

\* C28 witness: the task has left the wait for the acknowledgement by
\* time-out: it is about to register the accepted callback while the
\* subscribe command has not completed.
C28_Witness ==
    /\ pc = "regaccepted" /\ subAck = "sent"
    /\ mqttConnected
    /\ registered = {}

\* C23: a delta is never lost.  Once the delta callback has set
\* ulCurrentPowerOnState to v, and until a report carrying the current state
\* has been handed to the agent or an accepted response has stored v in
\* ulReportedPowerOnState, every comparison of the loop finds a report due.
\* (A delta that sets v while ulReportedPowerOnState holds v stored from an
\* accepted response owes no report.)
C23_DeltaNeverLost ==
    [][ (pc = "check" /\ ControllerStep /\ owed) => pc' = "settoken" ]_vars

\* C26: a rejected report is retried.  After a matched rejected response has
\* woken the task while its report was in flight, the reported state
\* differing from the current one, every following comparison of the loop
\* finds a report due, for as long as no delta changes
\* ulCurrentPowerOnState and no accepted response matches.
C26_RejectedRetried ==
    [][ (pc = "check" /\ ControllerStep /\ retryDue) => pc' = "settoken" ]_vars

\* C24: convergence.  Once the loop is running, every publish being queued
\* and every report being answered once, before its wait times out, by an
\* accepted response echoing its token and value, the task eventually
\* reaches a point from which ulReportedPowerOnState equals
\* ulCurrentPowerOnState for ever and it only compares and sleeps: no
\* further report is published.
C24_Convergence ==
    (pc \in LoopPositions)
       ~> [](/\ ulReportedPowerOnState = ulCurrentPowerOnState
             /\ pc \in {"check", "sleep"})

\* C24 witness: the last delta has been applied, its state was reported and
\* accepted, and the task sleeps with the two states equal and no token
\* pending.
C24_Witness ==
    /\ pc = "sleep" /\ hpc = "idle"
    /\ ulCurrentVersion = MaxVersion
    /\ ulCurrentPowerOnState # 0
    /\ ulReportedPowerOnState = ulCurrentPowerOnState
    /\ pcUpdateDocument.stored > 0
    /\ pcUpdateDocument.state = ulCurrentPowerOnState
    /\ ulClientToken = 0 /\ ulNotifiedValue = 0

\* C25: the loop has no terminal state and never blocks for ever.  Once the
\* loop is entered, whatever deltas and responses arrive or fail to arrive
\* and whether or not the publish is queued, the task reaches the
\* inter-cycle delay again and again: from every position of the loop it
\* gets to the delay, and from the delay it goes on to the next comparison.
C25_LoopNeverBlocks ==
    /\ (pc \in LoopPositions) ~> (pc = "sleep")
    /\ (pc = "sleep") ~> (pc = "check")

\* C25 witness: the task has reached the delay after a wait that no
\* response ended: the sentinel is stored and the token is cleared.
C25_Witness ==
    /\ pc = "sleep" /\ timedOut
    /\ ulReportedPowerOnState = shadowexampleINVALID_POWERON_STATE
    /\ ulCurrentPowerOnState # ulReportedPowerOnState
    /\ ulClientToken = 0 /\ ulNotifiedValue = 0
====
